---- MODULE Spec2Model ----
(***************************************************************************)
(* Model of the SmartAlloc allocation engine                               *)
(* (backend/apps/allocation/allocation_engine.py, tasks.py, models.py and  *)
(* backend/apps/hostels/models.py).                                        *)
(*                                                                         *)
(* The database is PostgreSQL at READ COMMITTED: a transaction reads the   *)
(* committed rows plus its own writes, a row written by an open            *)
(* transaction is locked against other writers until that transaction      *)
(* ends, and a failed statement inside transaction.atomic() marks the      *)
(* transaction for rollback.                                               *)
(***************************************************************************)
EXTENDS Integers, Sequences, FiniteSets, Bags, TLC

(***************************************************************************)
(* Bounds of the model                                                     *)
(***************************************************************************)
NumApps == 3
NumRuns == 2
MaxAdminOps == 3
MaxConcAdminOps == 1

(***************************************************************************)
(* Program constants                                                       *)
(***************************************************************************)
MaxRetries == 3

Apps == 1..NumApps
Runs == 1..NumRuns
None == 0
NotWritten == -1

(***************************************************************************)
(* Inventory: hostels, rooms and bed spaces                                *)
(***************************************************************************)
Hostels == {1, 2, 3}

gender_type == (1 :> "male") @@ (2 :> "female") @@ (3 :> "mixed")

GenderTypes == {"male", "female", "mixed"}

Rooms == {1, 2, 3, 4, 5}

\* room_number is a CharField: a string of digits, here a tuple of digits
room ==
  (1 :> [hostel |-> 1, room_number |-> <<3, 0>>, capacity |-> 1,
         is_accessible |-> TRUE, is_active |-> TRUE,
         is_under_maintenance |-> FALSE]) @@
  (2 :> [hostel |-> 1, room_number |-> <<2>>, capacity |-> 2,
         is_accessible |-> FALSE, is_active |-> TRUE,
         is_under_maintenance |-> FALSE]) @@
  (3 :> [hostel |-> 2, room_number |-> <<2>>, capacity |-> 1,
         is_accessible |-> FALSE, is_active |-> TRUE,
         is_under_maintenance |-> FALSE]) @@
  (4 :> [hostel |-> 3, room_number |-> <<1>>, capacity |-> 1,
         is_accessible |-> FALSE, is_active |-> TRUE,
         is_under_maintenance |-> FALSE]) @@
  (5 :> [hostel |-> 2, room_number |-> <<1>>, capacity |-> 1,
         is_accessible |-> FALSE, is_active |-> TRUE,
         is_under_maintenance |-> FALSE])

Beds == {1, 2, 3, 4, 5, 6}

bed_space ==
  (1 :> [room |-> 1, space_number |-> 1, is_active |-> TRUE]) @@
  (2 :> [room |-> 2, space_number |-> 1, is_active |-> TRUE]) @@
  (3 :> [room |-> 2, space_number |-> 2, is_active |-> TRUE]) @@
  (4 :> [room |-> 3, space_number |-> 1, is_active |-> TRUE]) @@
  (5 :> [room |-> 4, space_number |-> 1, is_active |-> TRUE]) @@
  (6 :> [room |-> 5, space_number |-> 1, is_active |-> TRUE])

BedsOf(rm) == {b \in Beds : bed_space[b].room = rm}

Sessions == {1, 2}

(***************************************************************************)
(* State                                                                   *)
(***************************************************************************)
VARIABLES
  student,       \* per application: the student's and application's fields
  bed_occupied,  \* BedSpace.is_occupied, committed
  room_occ,      \* Room.current_occupancy, committed
  app_status,    \* Application.status, committed
  allocations,   \* table of Allocation rows, committed, in insertion order
  waiting,       \* table of WaitingList rows, committed, in insertion order
  audit,         \* table of AuditLog rows, committed, as a bag of rows
  run_record,    \* AllocationRun rows
  eng,           \* per run: the task's and the engine's local state
  last,          \* the last operation and its outcome
  admin_ops      \* number of admin requests served

vars == <<student, bed_occupied, room_occ, app_status, allocations, waiting,
          audit, run_record, eng, last, admin_ops>>

(***************************************************************************)
(* Sequences helpers                                                       *)
(***************************************************************************)
Range(s) == {s[i] : i \in 1..Len(s)}

RECURSIVE SeqFilter(_, _)
SeqFilter(s, keep) ==
  IF s = <<>> THEN <<>>
  ELSE IF Head(s) \in keep THEN <<Head(s)>> \o SeqFilter(Tail(s), keep)
       ELSE SeqFilter(Tail(s), keep)

\* Python string comparison s < t on strings of digits
RECURSIVE StrLess(_, _)
StrLess(s, t) ==
  IF t = <<>> THEN FALSE
  ELSE IF s = <<>> THEN TRUE
  ELSE IF Head(s) # Head(t) THEN Head(s) < Head(t)
  ELSE StrLess(Tail(s), Tail(t))

\* a set of integers as the ascending list
RECURSIVE AscList(_)
AscList(S) ==
  IF S = {} THEN <<>>
  ELSE LET m == CHOOSE x \in S : \A y \in S : x <= y
       IN <<m>> \o AscList(S \ {m})

(***************************************************************************)
(* Priority scores (AllocationEngine.calculate_priority_scores)            *)
(***************************************************************************)
PredictFails == -1

\* ALLOCATION_CONSTRAINTS['seniority_boost'] = 1.2, in tenths
seniority_boost_tenths == 12

disability_floor == 95

min_score == 0

max_score == 100

Max2(x, y) == IF x >= y THEN x ELSE y

Min2(x, y) == IF x <= y THEN x ELSE y

\* the seniority boost and the disability floor without the final clamp
AdjustedScoreUnclamped(st) ==
  LET s0 == st.prediction
      s1 == IF st.level \in {400, 500}
            THEN (s0 * seniority_boost_tenths) \div 10 ELSE s0
  IN IF st.disability_status THEN Max2(s1, disability_floor) ELSE s1

\* the score the engine stores for a prediction that did not raise
AdjustedScore(st) ==
  LET s0 == st.prediction
      s1 == IF st.level \in {400, 500}
            THEN (s0 * seniority_boost_tenths) \div 10 ELSE s0
      s2 == IF st.disability_status THEN Max2(s1, disability_floor) ELSE s1
  IN Max2(min_score, Min2(max_score, s2))

\* without the except branch: the adjustments applied whatever was returned
PriorityScoreUncaught(st) == AdjustedScore(st)

\* scores[app.id]: 0.0 when scoring the application raised
PriorityScore(st) ==
  IF st.prediction = PredictFails THEN 0 ELSE AdjustedScore(st)

(***************************************************************************)
(* Step 2 of allocate_batch: sorted(..., reverse=True)                     *)
(***************************************************************************)
\* key(x) > key(y) for key = (scores.get(a.id, 0), a.application_date)
AppKeyGreater(x, y, st) ==
  \/ PriorityScore(st[x]) > PriorityScore(st[y])
  \/ /\ PriorityScore(st[x]) = PriorityScore(st[y])
     /\ st[x].application_date > st[y].application_date

RECURSIVE InsertApp(_, _, _)
InsertApp(x, s, st) ==
  IF s = <<>> THEN <<x>>
  ELSE IF AppKeyGreater(x, Head(s), st) THEN <<x>> \o s
       ELSE <<Head(s)>> \o InsertApp(x, Tail(s), st)

\* a stable sort, descending by key
RECURSIVE SortedApps(_, _)
SortedApps(s, st) ==
  IF s = <<>> THEN <<>>
  ELSE InsertApp(s[Len(s)], SortedApps(SubSeq(s, 1, Len(s) - 1), st), st)

(***************************************************************************)
(* Room properties (hostels/models.py)                                     *)
(***************************************************************************)
available_spaces(rm, occ) == room[rm].capacity - occ

is_full(rm, occ) == occ >= room[rm].capacity

is_available(rm, occ) ==
  room[rm].is_active /\ ~room[rm].is_under_maintenance /\ ~is_full(rm, occ)

can_accommodate(rm, occ) == available_spaces(rm, occ) >= 1

\* an increment that does not ask can_accommodate
increment_occupancy_unguarded(rm, occ) == occ + 1

\* Room.increment_occupancy on an object whose current_occupancy is occ:
\* the new value of the field; the row is saved exactly when it changed
increment_occupancy(rm, occ) == IF can_accommodate(rm, occ) THEN occ + 1 ELSE occ

\* Room.decrement_occupancy
decrement_occupancy(rm, occ) == IF occ >= 1 THEN occ - 1 ELSE occ

\* what the two methods return
increment_occupancy_returns(rm, occ) == can_accommodate(rm, occ)

decrement_occupancy_returns(rm, occ) == occ >= 1

(***************************************************************************)
(* Step 3: AllocationEngine._get_available_rooms_by_gender                 *)
(***************************************************************************)
\* a key without the room number
RoomKeyLessAccessibleOnly(x, y) ==
  room[x].is_accessible /\ ~room[y].is_accessible

\* key(x) < key(y) for key = (not r.is_accessible, r.room_number)
RoomKeyLess(x, y) ==
  \/ room[x].is_accessible /\ ~room[y].is_accessible
  \/ /\ room[x].is_accessible = room[y].is_accessible
     /\ StrLess(room[x].room_number, room[y].room_number)

RECURSIVE InsertRoom(_, _)
InsertRoom(x, s) ==
  IF s = <<>> THEN <<x>>
  ELSE IF RoomKeyLess(x, Head(s)) THEN <<x>> \o s
       ELSE <<Head(s)>> \o InsertRoom(x, Tail(s))

RECURSIVE SortedRooms(_)
SortedRooms(s) ==
  IF s = <<>> THEN <<>>
  ELSE InsertRoom(s[Len(s)], SortedRooms(SubSeq(s, 1, Len(s) - 1)))

\* occ is the current_occupancy of every room as the query reads it
AvailableRoomsByGender(occ) ==
  [g \in GenderTypes |->
     SortedRooms(AscList({rm \in Rooms :
        /\ gender_type[room[rm].hostel] = g
        /\ is_available(rm, occ[rm])}))]

(***************************************************************************)
(* AllocationEngine._allocate_single, up to the choice of a bed space      *)
(***************************************************************************)
\* every gender other than M treated as F
EligibleGendersBinary(g) ==
  IF g = "M" THEN <<"male", "mixed">> ELSE <<"female", "mixed">>

EligibleGenders(g) ==
  IF g = "M" THEN <<"male", "mixed">>
  ELSE IF g = "F" THEN <<"female", "mixed">>
  ELSE <<"mixed">>

RECURSIVE ConcatRooms(_, _)
ConcatRooms(gs, rooms_by_gender) ==
  IF gs = <<>> THEN <<>>
  ELSE rooms_by_gender[Head(gs)] \o ConcatRooms(Tail(gs), rooms_by_gender)

EligibleRooms(st, rooms_by_gender) ==
  ConcatRooms(EligibleGenders(st.gender), rooms_by_gender)

AccessibleFilter(st, rooms) ==
  LET accessible_rooms ==
        SeqFilter(rooms, {rm \in Rooms : room[rm].is_accessible})
  IN IF st.disability_status /\ accessible_rooms # <<>>
     THEN accessible_rooms ELSE rooms

PreferredFilter(st, rooms) ==
  LET preferred_rooms ==
        SeqFilter(rooms, {rm \in Rooms : room[rm].hostel = st.preferred_hostel})
  IN IF st.preferred_hostel # None /\ preferred_rooms # <<>>
     THEN preferred_rooms ELSE rooms

\* the list _allocate_single scans
CandidateRooms(st, rooms_by_gender) ==
  PreferredFilter(st, AccessibleFilter(st, EligibleRooms(st, rooms_by_gender)))

\* room.bed_spaces.filter(is_occupied=False, is_active=True): occupied is
\* the set of bed spaces the query reads as occupied
FreeBeds(rm, occupied) ==
  {b \in BedsOf(rm) : b \notin occupied /\ bed_space[b].is_active}

\* .first() under Meta ordering ['room', 'space_number']; None if no row
FirstFreeBed(rm, occupied) ==
  IF FreeBeds(rm, occupied) = {} THEN None
  ELSE CHOOSE b \in FreeBeds(rm, occupied) :
         \A c \in FreeBeds(rm, occupied) :
            bed_space[b].space_number <= bed_space[c].space_number

\* the first room of the list with a free bed space, None if there is none
RECURSIVE FirstRoomWithBed(_, _)
FirstRoomWithBed(rooms, occupied) ==
  IF rooms = <<>> THEN None
  ELSE IF FirstFreeBed(Head(rooms), occupied) # None THEN Head(rooms)
       ELSE FirstRoomWithBed(Tail(rooms), occupied)

(***************************************************************************)
(* Rows and local state                                                    *)
(***************************************************************************)
\* an Allocation row; bed_space and bed_space_number are nullable
AllocationRow(a, rm, b, n, override) ==
  [application |-> a, room |-> rm, bed_space |-> b, bed_space_number |-> n,
   is_active |-> TRUE, admin_override |-> override]

AuditRow(action, a) == [action |-> action, application |-> a]

WaitingRow(a, position, prio) ==
  [application |-> a, position |-> position, is_priority |-> prio]

\* AllocationResult of a successful _allocate_single
ResultRow(a, rm, b) ==
  [application_id |-> a, room_id |-> rm, bed |-> b,
   bed_space_number |-> bed_space[b].space_number]

NewRunRecord(session) ==
  [academic_session |-> session, status |-> "PENDING", total_applications |-> 0,
   successful_allocations |-> 0, waiting_list_count |-> 0,
   error_message |-> ""]

\* AllocationRun.mark_completed: update_fields=['status', 'completed_at']
mark_completed(rec) == [rec EXCEPT !.status = "COMPLETED"]

\* a mark_failed that saves nothing
mark_failed_unsaved(rec, error_message) == rec

\* AllocationRun.mark_failed
mark_failed(rec, error_message) ==
  [rec EXCEPT !.status = "FAILED", !.error_message = error_message]

\* the task before it is executed: nothing read, no transaction open.
\* applications holds the elements of the list of the task; the order of the
\* list is used by sorted() alone and lives on in sorted_apps
NewEngine(retries) ==
  [pc |-> "queued", applications |-> {}, sorted_apps |-> <<>>, idx |-> 0,
   rooms_by_gender |-> [g \in GenderTypes |-> <<>>],
   mem_occ |-> [rm \in Rooms |-> 0],
   selected_room |-> None, selected_bed_space |-> None,
   successful |-> <<>>, waiting_list |-> <<>>,
   needs_rollback |-> FALSE,
   w_beds |-> {}, w_room |-> [rm \in Rooms |-> NotWritten], w_apps |-> {},
   w_alloc |-> <<>>, w_audit |-> EmptyBag,
   retries |-> retries, pre_occupied |-> {}]

NoOp == [op |-> "none", application |-> None, raised |-> FALSE]

OccupiedBeds == {b \in Beds : bed_occupied[b]}

\* a view that misses the bed spaces the run itself has claimed
BedsSeenByStale(r) == OccupiedBeds

\* what the open transaction of run r reads
BedsSeenBy(r) == OccupiedBeds \cup eng[r].w_beds

RoomOccSeenBy(r, rm) ==
  IF eng[r].w_room[rm] # NotWritten THEN eng[r].w_room[rm] ELSE room_occ[rm]

\* row locks held by the open transactions of the runs other than r
BedLocked(r, b) == \E q \in Runs \ {r} : b \in eng[q].w_beds

RoomLocked(r, rm) == \E q \in Runs \ {r} : eng[q].w_room[rm] # NotWritten

AppLocked(r, a) == \E q \in Runs \ {r} : a \in eng[q].w_apps

AllocInsertPending(r, a) ==
  \E q \in Runs \ {r} : \E i \in 1..Len(eng[q].w_alloc) :
     eng[q].w_alloc[i].application = a

\* a ForeignKey in place of the OneToOneField: no unique constraint
AllocationExistsUnchecked(a) == FALSE

\* the unique constraint of the OneToOneField Allocation.application
AllocationExists(a) ==
  \E i \in 1..Len(allocations) : allocations[i].application = a

\* the unique constraint of the OneToOneField WaitingList.application
WaitingExists(a, rows) ==
  \E i \in 1..Len(rows) : rows[i].application = a

(***************************************************************************)
(* The Celery task run_batch_allocation up to step 3 of allocate_batch     *)
(***************************************************************************)
\* the filter on the academic session alone
PendingApplicationsAnyStatus(session) ==
  AscList({a \in Apps : student[a].academic_session = session})

\* Application.objects.filter(academic_session=..., status='pending')
PendingApplications(session) ==
  AscList({a \in Apps : /\ student[a].academic_session = session
                        /\ app_status[a] = "pending"})

\* the apps whose scoring did not raise: each is saved and audited
Scored(apps) == SeqFilter(apps, {a \in Apps : student[a].prediction # PredictFails})

\* one PRIORITY_CALCULATED row for each of them
ScoringAudit(apps) ==
  SetToBag({AuditRow("PRIORITY_CALCULATED", a) : a \in Range(apps)})

\* Application.priority_score as stored: null until a scoring of the
\* application has succeeded (app.save() next to its PRIORITY_CALCULATED row)
NullScore == 101

StoredScore(a) ==
  IF BagIn(AuditRow("PRIORITY_CALCULATED", a), audit)
  THEN AdjustedScore(student[a]) ELSE NullScore

\* Application.Meta.ordering = ['-priority_score', 'application_date']:
\* x is strictly before y (PostgreSQL puts NULL first in a DESC column)
MetaOrderBefore(x, y) ==
  \/ StoredScore(x) > StoredScore(y)
  \/ /\ StoredScore(x) = StoredScore(y)
     /\ student[x].application_date < student[y].application_date

\* the orders in which the database may return the rows of the queryset:
\* rows that Meta.ordering does not separate come in any order
QuerysetOrders(S) ==
  {s \in [1..Cardinality(S) -> S] :
     /\ \A i, j \in 1..Cardinality(S) : i # j => s[i] # s[j]
     /\ \A i, j \in 1..Cardinality(S) : i < j => ~MetaOrderBefore(s[j], s[i])}

TaskStart(r) ==
  /\ eng[r].pc = "queued"
  /\ \E pending \in
        {Range(PendingApplications(run_record[r].academic_session))} :
     \E applications \in QuerysetOrders(pending) :
       /\ \A a \in Range(Scored(applications)) : ~AppLocked(r, a)
       /\ IF applications = <<>>
          THEN /\ run_record' = [run_record EXCEPT ![r] =
                      mark_failed([@ EXCEPT !.status = "RUNNING"],
                                  "No pending applications found")]
               /\ eng' = [eng EXCEPT ![r].pc = "done"]
               /\ audit' = audit
          ELSE /\ run_record' = [run_record EXCEPT ![r].status = "RUNNING"]
               /\ audit' = audit (+) ScoringAudit(Scored(applications))
               /\ eng' = [eng EXCEPT
                      ![r].pc = "loop",
                      ![r].applications = Range(applications),
                      ![r].sorted_apps = SortedApps(applications, student),
                      ![r].idx = 1,
                      ![r].rooms_by_gender = AvailableRoomsByGender(room_occ),
                      ![r].mem_occ = room_occ,
                      ![r].pre_occupied = OccupiedBeds]
  /\ UNCHANGED <<student, bed_occupied, room_occ, app_status, allocations,
                 waiting, last, admin_ops>>

(***************************************************************************)
(* _allocate_single up to the choice of the bed space (the reads)          *)
(***************************************************************************)
AllocateSingle(r) ==
  LET e == eng[r]
      app == e.sorted_apps[e.idx]
      rooms == CandidateRooms(student[app], e.rooms_by_gender)
  IN /\ e.pc = "loop"
     /\ e.idx <= Len(e.sorted_apps)
     /\ \E rm \in {FirstRoomWithBed(rooms, BedsSeenBy(r))} :
        IF e.needs_rollback \/ rm = None
        THEN \* a failed result, or the query raised in the broken
             \* transaction: waiting_list.append(app)
             eng' = [eng EXCEPT ![r].waiting_list = Append(@, app),
                                ![r].idx = @ + 1]
        ELSE eng' = [eng EXCEPT ![r].selected_room = rm,
                                ![r].selected_bed_space =
                                    FirstFreeBed(rm, BedsSeenBy(r)),
                                ![r].pc = "picked"]
     /\ UNCHANGED <<student, bed_occupied, room_occ, app_status, allocations,
                    waiting, audit, run_record, last, admin_ops>>

(***************************************************************************)
(* selected_bed_space.allocate() and the body of the loop of               *)
(* allocate_batch for a successful result (the writes)                     *)
(***************************************************************************)
ClaimAndRecord(r) ==
  LET e == eng[r]
      app == e.sorted_apps[e.idx]
      rm == e.selected_room
      b == e.selected_bed_space
      \* BedSpace.allocate on the object the query returned (is_occupied
      \* False, is_active True): saves it, then increments self.room, which
      \* is the Room object of the snapshot
      mem1 == increment_occupancy(rm, e.mem_occ[rm])
      w_room1 == IF mem1 # e.mem_occ[rm]
                 THEN [e.w_room EXCEPT ![rm] = mem1] ELSE e.w_room
      \* Room.objects.get(id=result.room_id).increment_occupancy()
      fresh == IF w_room1[rm] # NotWritten THEN w_room1[rm] ELSE room_occ[rm]
      fresh1 == increment_occupancy(rm, fresh)
      w_room2 == IF fresh1 # fresh
                 THEN [w_room1 EXCEPT ![rm] = fresh1] ELSE w_room1
      claimed == [e EXCEPT !.w_beds = @ \cup {b},
                           !.mem_occ = [@ EXCEPT ![rm] = mem1],
                           !.w_room = w_room1,
                           !.successful = Append(@, ResultRow(app, rm, b)),
                           !.selected_room = None,
                           !.selected_bed_space = None,
                           !.idx = @ + 1,
                           !.pc = "loop"]
  IN /\ e.pc = "picked"
     /\ ~BedLocked(r, b)
     /\ ~RoomLocked(r, rm)
     /\ ~AppLocked(r, app)
     /\ ~AllocInsertPending(r, app)
     /\ IF AllocationExists(app)
        THEN \* Allocation.objects.create raises IntegrityError: the
             \* transaction is marked for rollback, the handler appends
             eng' = [eng EXCEPT ![r] =
                   [claimed EXCEPT !.needs_rollback = TRUE,
                                   !.waiting_list = Append(@, app)]]
        ELSE eng' = [eng EXCEPT ![r] =
                   [claimed EXCEPT
                      !.w_alloc = Append(@, AllocationRow(app, rm, None,
                                     bed_space[b].space_number, FALSE)),
                      !.w_apps = @ \cup {app},
                      !.w_room = w_room2,
                      !.w_audit =
                          @ (+) SetToBag({AuditRow("ALLOCATION_CREATED", app)})]]
     /\ UNCHANGED <<student, bed_occupied, room_occ, app_status, allocations,
                    waiting, audit, run_record, last, admin_ops>>

(***************************************************************************)
(* The end of the atomic block, step 5 and the run record (allocate_batch  *)
(* lines 213-229), and the task's exception handler                        *)
(***************************************************************************)
\* for position, app in enumerate(waiting_list, 1): WaitingList.objects
\* .create(...), each in its own transaction; stops at the first
\* IntegrityError.  The result is the table and whether a create raised.
RECURSIVE CreateWaiting(_, _, _)
CreateWaiting(rows, wl, position) ==
  IF wl = <<>> THEN [rows |-> rows, raised |-> FALSE]
  ELSE IF WaitingExists(Head(wl), rows) THEN [rows |-> rows, raised |-> TRUE]
  ELSE CreateWaiting(
         Append(rows, WaitingRow(Head(wl), position,
                                 student[Head(wl)].disability_status)),
         Tail(wl), position + 1)

\* a block that commits whatever happened inside it
CommitsAtExitAlways(e, raised) == TRUE

\* step 5 inside the atomic block: an exception there rolls the loop back
CommitsAtExitUnlessRaised(e, raised) == ~e.needs_rollback /\ ~raised

\* leaving transaction.atomic() after the loop: commit unless an error in
\* the block marked the transaction for rollback; raised, the outcome of
\* step 5, comes after the block has been left
CommitsAtExit(e, raised) == ~e.needs_rollback

FinishBatch(r) ==
  LET e == eng[r]
      created == CreateWaiting(waiting, e.waiting_list, 1)
      commit == CommitsAtExit(e, created.raised)
  IN /\ e.pc = "loop"
     /\ e.idx > Len(e.sorted_apps)
     \* leaving transaction.atomic(): commit, or roll back if marked
     /\ bed_occupied' = [b \in Beds |->
            bed_occupied[b] \/ (commit /\ b \in e.w_beds)]
     /\ room_occ' = [rm \in Rooms |->
            IF commit /\ e.w_room[rm] # NotWritten
            THEN e.w_room[rm] ELSE room_occ[rm]]
     /\ app_status' = [a \in Apps |->
            IF commit /\ a \in e.w_apps THEN "allocated" ELSE app_status[a]]
     /\ allocations' = IF commit THEN allocations \o e.w_alloc ELSE allocations
     /\ audit' = IF commit THEN audit (+) e.w_audit ELSE audit
     /\ waiting' = created.rows
     /\ IF created.raised
        THEN \* the exception leaves allocate_batch: mark_failed(str(exc)),
             \* then self.retry
             /\ run_record' = [run_record EXCEPT ![r] =
                    mark_failed(@, "IntegrityError")]
             /\ eng' = [eng EXCEPT ![r] =
                    IF e.retries < MaxRetries
                    THEN NewEngine(e.retries + 1)
                    ELSE [NewEngine(e.retries) EXCEPT !.pc = "done"]]
        ELSE \* mark_completed saves update_fields=['status', 'completed_at']
             /\ run_record' = [run_record EXCEPT ![r] = mark_completed(@)]
             /\ eng' = [eng EXCEPT ![r].pc = "done",
                    ![r].w_beds = {},
                    ![r].w_room = [rm \in Rooms |-> NotWritten],
                    ![r].w_apps = {}, ![r].w_alloc = <<>>, ![r].w_audit = EmptyBag]
     /\ UNCHANGED <<student, last, admin_ops>>

(***************************************************************************)
(* AllocationEngine.manual_override, called by ManualOverrideView.post     *)
(***************************************************************************)
NoRun == 0

\* BedSpace.allocate on a bed space read as occupied = occ
BedAllocateSucceeds(b, occ) == ~occ /\ bed_space[b].is_active

ManualOverride(a, rm, b) ==
  LET \* existing = application.allocation; existing.cancel(...)
      existing == {i \in 1..Len(allocations) :
                      allocations[i].application = a}
      rows1 == [i \in 1..Len(allocations) |->
                  IF i \in existing
                  THEN [allocations[i] EXCEPT !.is_active = FALSE]
                  ELSE allocations[i]]
      freed == {allocations[i].bed_space : i \in existing} \ {None}
      beds1 == [c \in Beds |-> bed_occupied[c] /\ c \notin freed]
      occ1 == [x \in Rooms |->
                 IF \E c \in freed : bed_occupied[c] /\ bed_space[c].room = x
                 THEN decrement_occupancy(x, room_occ[x]) ELSE room_occ[x]]
      \* bed_space is the object the view read before the transaction
      claims == b # None /\ BedAllocateSucceeds(b, bed_occupied[b])
      \* bed_space.allocate() increments bed_space.room, else the room
      target == IF b # None THEN bed_space[b].room ELSE rm
      incr == b = None \/ claims
      \* room is the object the view read, bed_space.room is read afresh
      base == IF b = None THEN room_occ[target] ELSE occ1[target]
  IN /\ admin_ops' = admin_ops + 1
     /\ b # None => bed_space[b].room = rm
     /\ ~AppLocked(NoRun, a)
     /\ ~AllocInsertPending(NoRun, a)
     /\ \A c \in (freed \cup {b}) \ {None} : ~BedLocked(NoRun, c)
     /\ \A x \in {target} \cup {bed_space[c].room : c \in freed} :
           ~RoomLocked(NoRun, x)
     /\ IF AllocationExists(a)
        THEN \* Allocation.objects.create raises IntegrityError and the
             \* atomic block rolls back, the cancellation included
             /\ last' = [op |-> "override", application |-> a, raised |-> TRUE]
             /\ UNCHANGED <<bed_occupied, room_occ, app_status, allocations,
                            audit>>
        ELSE /\ allocations' = Append(rows1,
                   AllocationRow(a, rm, b,
                      IF b # None THEN bed_space[b].space_number ELSE None,
                      TRUE))
             /\ app_status' = [app_status EXCEPT ![a] = "allocated"]
             /\ bed_occupied' = IF claims
                   THEN [beds1 EXCEPT ![b] = TRUE] ELSE beds1
             /\ room_occ' = IF incr
                   THEN [occ1 EXCEPT ![target] =
                           increment_occupancy(target, base)]
                   ELSE occ1
             /\ audit' = audit (+) SetToBag({AuditRow("MANUAL_OVERRIDE", a)})
             /\ last' = [op |-> "override", application |-> a, raised |-> FALSE]
     /\ UNCHANGED <<student, waiting, run_record, eng>>

(***************************************************************************)
(* Allocation.cancel, called by AllocationCancelView.post                  *)
(***************************************************************************)
Cancel(i) ==
  LET row == allocations[i]
      b == row.bed_space
      frees == b # None /\ bed_occupied[b]
  IN /\ i \in 1..Len(allocations)
     /\ admin_ops < MaxAdminOps
     /\ admin_ops' = admin_ops + 1
     /\ b # None => ~BedLocked(NoRun, b) /\ ~RoomLocked(NoRun, bed_space[b].room)
     /\ allocations' = [allocations EXCEPT ![i].is_active = FALSE]
     \* BedSpace.deallocate
     /\ bed_occupied' = IF frees
           THEN [bed_occupied EXCEPT ![b] = FALSE] ELSE bed_occupied
     /\ room_occ' = IF frees
           THEN [room_occ EXCEPT ![bed_space[b].room] =
                   decrement_occupancy(bed_space[b].room, @)]
           ELSE room_occ
     /\ last' = [op |-> "cancel", application |-> row.application,
                 raised |-> FALSE]
     /\ UNCHANGED <<student, app_status, waiting, audit, run_record, eng>>

(***************************************************************************)
(* AllocationRunAdmin.mark_cancelled on the run r:                         *)
(* queryset.filter(status='PENDING').update(status='CANCELLED')            *)
(***************************************************************************)
mark_cancelled(r) ==
  /\ admin_ops' = admin_ops + 1
  /\ run_record' = IF run_record[r].status = "PENDING"
                   THEN [run_record EXCEPT ![r].status = "CANCELLED"]
                   ELSE run_record
  /\ last' = [op |-> "mark_cancelled", application |-> None, raised |-> FALSE]
  /\ UNCHANGED <<student, bed_occupied, room_occ, app_status, allocations,
                 waiting, audit, eng>>

(***************************************************************************)
(* Initial states                                                          *)
(***************************************************************************)
Student(g, d, lv, ph, pr, dt, session) ==
  [gender |-> g, disability_status |-> d, level |-> lv,
   preferred_hostel |-> ph, prediction |-> pr, application_date |-> dt,
   academic_session |-> session]

\* the sets of bed spaces occupied before the first operation
InitialOccupied == {{}, {2}, {1, 5}}

InitDB ==
  /\ bed_occupied \in {[b \in Beds |-> b \in S] : S \in InitialOccupied}
  /\ room_occ = [rm \in Rooms |->
        Cardinality({b \in BedsOf(rm) : bed_occupied[b]})]
  /\ app_status = [a \in Apps |-> "pending"]
  /\ allocations = <<>>
  /\ waiting = <<>>
  /\ audit = EmptyBag
  /\ run_record \in {[r \in Runs |-> NewRunRecord(f[r])] :
                       f \in {g \in [Runs -> Sessions] : g[1] = 1}}
  /\ eng = [r \in Runs |-> NewEngine(0)]
  /\ last = NoOp
  /\ admin_ops = 0

\* the applicants of the specifications with admin requests
FewStudents ==
  [a \in Apps |->
     IF a = 1 THEN Student("M", FALSE, 100, None, 50, 1, 1)
     ELSE IF a = 2 THEN Student("M", TRUE, 100, None, 50, 2, 2)
     ELSE Student("F", FALSE, 400, 3, 90, 2, 1)]

Init ==
  /\ student = FewStudents
  /\ InitDB

\* the applicants of the batch specification
BatchProfiles ==
  <<Student("M", FALSE, 100, None, 50, 1, 1),
    Student("M", TRUE, 100, None, 50, 1, 1),
    Student("M", TRUE, 100, None, 50, 2, 1),
    Student("M", FALSE, 400, 1, 90, 1, 1),
    Student("F", TRUE, 400, 3, 90, 2, 1),
    Student("F", FALSE, 100, 1, 50, 2, 1),
    Student("O", FALSE, 100, None, 50, 1, 1),
    Student("O", TRUE, 100, 2, PredictFails, 2, 1)>>

BatchStudents == Range(BatchProfiles)

\* the database returns the applications in any order Meta.ordering allows,
\* so the ids only name the applicants: one numbering per group of applicants
InitBatch ==
  /\ student \in {[a \in Apps |-> BatchProfiles[f[a]]] :
        f \in {g \in [Apps -> 1..Len(BatchProfiles)] :
                 \A a, c \in Apps : a < c => g[a] <= g[c]}}
  /\ InitDB
  /\ \A r \in Runs : run_record[r].academic_session = 1

(***************************************************************************)
(* Next-state relations                                                    *)
(***************************************************************************)
\* no task other than r is between its start and its end
Quiet(r) == \A q \in Runs \ {r} : eng[q].pc \in {"queued", "done"}

\* concurrent tasks and admin requests
Next ==
  \/ \E r \in Runs : TaskStart(r)
  \/ \E r \in Runs : AllocateSingle(r)
  \/ \E r \in Runs : ClaimAndRecord(r)
  \/ \E r \in Runs : FinishBatch(r)
  \/ \E a \in Apps, rm \in Rooms, b \in Beds \cup {None} :
        admin_ops < MaxConcAdminOps /\ ManualOverride(a, rm, b)
  \/ \E i \in 1..Len(allocations) :
        admin_ops < MaxConcAdminOps /\ Cancel(i)
  \/ \E r \in Runs :
        admin_ops < MaxConcAdminOps /\ mark_cancelled(r)

Spec == Init /\ [][Next]_vars

\* a single worker takes the tasks from the queue in the order the runs were
\* created; a retry is queued again behind the tasks that wait
InOrder(r) ==
  \A q \in Runs : q < r => (eng[q].pc # "queued" \/ eng[q].retries > 0)

\* one task at a time, no admin requests
NextBatch ==
  \/ \E r \in Runs : Quiet(r) /\ InOrder(r) /\ TaskStart(r)
  \/ \E r \in Runs : Quiet(r) /\ AllocateSingle(r)
  \/ \E r \in Runs : Quiet(r) /\ ClaimAndRecord(r)
  \/ \E r \in Runs : Quiet(r) /\ FinishBatch(r)

SpecBatch == InitBatch /\ [][NextBatch]_vars

\* the worker eventually executes a task that is queued or under way
SpecBatchFair == SpecBatch /\ WF_vars(NextBatch)

\* one task at a time, admin requests between the tasks
NextAdmin ==
  \/ \E r \in Runs : Quiet(r) /\ InOrder(r) /\ TaskStart(r)
  \/ \E r \in Runs : Quiet(r) /\ AllocateSingle(r)
  \/ \E r \in Runs : Quiet(r) /\ ClaimAndRecord(r)
  \/ \E r \in Runs : Quiet(r) /\ FinishBatch(r)
  \/ \E a \in Apps, rm \in Rooms, b \in Beds \cup {None} :
        /\ admin_ops < MaxAdminOps
        /\ Quiet(NoRun)
        /\ ManualOverride(a, rm, b)
  \/ \E i \in 1..Len(allocations) :
        /\ admin_ops < MaxAdminOps
        /\ Quiet(NoRun)
        /\ Cancel(i)
  \/ \E r \in Runs :
        /\ admin_ops < MaxAdminOps
        /\ Quiet(NoRun)
        /\ mark_cancelled(r)

SpecAdmin == Init /\ [][NextAdmin]_vars

(***************************************************************************)
(* Definitions used by the properties                                      *)
(***************************************************************************)
OccupiedCount(rm, occupied) == Cardinality(BedsOf(rm) \cap occupied)

\* the bed space an Allocation row designates: its bed_space, else the bed
\* space of its room with its bed_space_number
BedOfRow(row) ==
  IF row.bed_space # None THEN row.bed_space
  ELSE IF row.bed_space_number = None THEN None
  ELSE IF \E b \in BedsOf(row.room) :
             bed_space[b].space_number = row.bed_space_number
       THEN CHOOSE b \in BedsOf(row.room) :
             bed_space[b].space_number = row.bed_space_number
       ELSE None

ActiveRows == {i \in 1..Len(allocations) : allocations[i].is_active}

GenderAllowed(g, hostel_gender) ==
  \/ hostel_gender = "mixed"
  \/ g = "M" /\ hostel_gender = "male"
  \/ g = "F" /\ hostel_gender = "female"

LoopFinished(r) ==
  eng[r].pc = "loop" /\ eng[r].idx > Len(eng[r].sorted_apps)

(***************************************************************************)
(* C1: at every point during and after a run, every room's                 *)
(* current_occupancy equals the number of its occupied bed spaces, both    *)
(* as committed and as the run's open transaction reads them.              *)
(***************************************************************************)
C1_OccupancyMatchesBeds ==
  /\ \A rm \in Rooms : room_occ[rm] = OccupiedCount(rm, OccupiedBeds)
  /\ \A r \in Runs : \A rm \in Rooms :
        eng[r].pc \in {"loop", "picked"} =>
          RoomOccSeenBy(r, rm) = OccupiedCount(rm, BedsSeenBy(r))

(***************************************************************************)
(* C2: within one run no bed space is given to two applicants, and no bed  *)
(* space occupied before the run is given to an applicant.                 *)
(***************************************************************************)
C2_NoBedAssignedTwice ==
  \A r \in Runs :
    LET s == eng[r].successful
    IN /\ \A i, j \in 1..Len(s) : i # j => s[i].bed # s[j].bed
       /\ \A i \in 1..Len(s) : s[i].bed \notin eng[r].pre_occupied

C2_Witness ==
  \E r \in Runs :
    /\ Len(eng[r].successful) >= 2
    /\ eng[r].pre_occupied # {}
    /\ eng[r].successful[1].room_id = eng[r].successful[2].room_id

(***************************************************************************)
(* C3: with concurrent runs, no bed space ends up designated by the active *)
(* allocations of two different applications placed by batch runs, and     *)
(* every room's current_occupancy counts its occupied bed spaces.          *)
(***************************************************************************)
C3_AtomicBedClaim ==
  /\ \A i, j \in ActiveRows :
        /\ i # j
        /\ ~allocations[i].admin_override
        /\ ~allocations[j].admin_override
        /\ allocations[i].application # allocations[j].application
        => BedOfRow(allocations[i]) # BedOfRow(allocations[j])
  /\ (\A r \in Runs : eng[r].pc = "done") =>
        \A rm \in Rooms : room_occ[rm] >= OccupiedCount(rm, OccupiedBeds)

(***************************************************************************)
(* C4: no application has two active Allocation rows.                      *)
(***************************************************************************)
C4_AtMostOneActiveAllocation ==
  \A i, j \in ActiveRows :
    allocations[i].application = allocations[j].application => i = j

C4_Witness ==
  /\ \E r \in Runs : eng[r].needs_rollback
  /\ \E a \in Apps : AllocationExists(a) /\ app_status[a] = "allocated"

(***************************************************************************)
(* C5: a run places an applicant only in a room of a hostel whose gender   *)
(* type admits the applicant's gender.                                     *)
(***************************************************************************)
C5_GenderConstraint ==
  \A r \in Runs : \A i \in 1..Len(eng[r].successful) :
    LET res == eng[r].successful[i]
    IN GenderAllowed(student[res.application_id].gender,
                     gender_type[room[res.room_id].hostel])

C5_Witness ==
  \E r \in Runs : \E i \in 1..Len(eng[r].successful) :
    LET st == student[eng[r].successful[i].application_id]
    IN /\ st.preferred_hostel # None
       /\ ~GenderAllowed(st.gender, gender_type[st.preferred_hostel])

(***************************************************************************)
(* C6: a run processes the applicants in descending order of score, and    *)
(* among equal scores the earlier application_date first.                  *)
(***************************************************************************)
C6_EarlierSubmissionFirst ==
  \A r \in Runs :
    LET s == eng[r].sorted_apps
    IN \A i, j \in 1..Len(s) : i < j =>
         \/ PriorityScore(student[s[i]]) > PriorityScore(student[s[j]])
         \/ /\ PriorityScore(student[s[i]]) = PriorityScore(student[s[j]])
            /\ student[s[i]].application_date <= student[s[j]].application_date

(***************************************************************************)
(* C7: when the loop of a run has ended, the number of successful results  *)
(* plus the number of waiting-list applications is the number of input     *)
(* applications.                                                           *)
(***************************************************************************)
C7_WaitingListComplete ==
  \A r \in Runs :
    LoopFinished(r) =>
      Len(eng[r].successful) + Len(eng[r].waiting_list)
        = Cardinality(eng[r].applications)

(***************************************************************************)
(* C8: a step of a run that leaves unplaced an applicant who requires      *)
(* accessibility and has no preferred hostel happens only when no room of  *)
(* the applicant's gender buckets has a free active bed space.             *)
(***************************************************************************)
C8_AccessibilityIsSoft ==
  [][\A r \in Runs :
       LET e == eng[r]
           app == e.sorted_apps[e.idx]
       IN (/\ e.pc = "loop"
           /\ e.idx <= Len(e.sorted_apps)
           /\ eng'[r].waiting_list = Append(e.waiting_list, app)
           /\ student[app].disability_status
           /\ student[app].preferred_hostel = None)
          => ~\E rm \in Range(EligibleRooms(student[app], e.rooms_by_gender)) :
                FreeBeds(rm, BedsSeenBy(r)) # {}]_vars

(***************************************************************************)
(* C9: after a manual override no bed space is designated by two active    *)
(* allocations and no room has more active allocations than capacity.      *)
(***************************************************************************)
C9_OverrideKeepsCapacity ==
  (last.op = "override" /\ ~last.raised) =>
    /\ \A i, j \in ActiveRows :
          (i # j /\ BedOfRow(allocations[i]) # None)
          => BedOfRow(allocations[i]) # BedOfRow(allocations[j])
    /\ \A rm \in Rooms :
          Cardinality({i \in ActiveRows : allocations[i].room = rm})
            <= room[rm].capacity

(***************************************************************************)
(* C10: a cancellation of an active allocation leaves the bed space the    *)
(* allocation designates unoccupied and lowers the current_occupancy of    *)
(* its room by one.                                                        *)
(***************************************************************************)
C10_CancelFreesCapacity ==
  [][\A i \in 1..Len(allocations) :
       (/\ admin_ops' = admin_ops + 1
        /\ last'.op = "cancel"
        /\ Len(allocations') = Len(allocations)
        /\ allocations[i].is_active
        /\ ~allocations'[i].is_active)
       => /\ BedOfRow(allocations[i]) # None =>
               ~bed_occupied'[BedOfRow(allocations[i])]
          /\ room_occ'[allocations[i].room]
               = room_occ[allocations[i].room] - 1]_vars

(***************************************************************************)
(* C11: a manual override for an application that has an active allocation *)
(* succeeds: it does not raise, the earlier allocation is inactive, the    *)
(* application has exactly one active allocation, flagged admin_override.  *)
(***************************************************************************)
C11_OverrideReplacesAllocation ==
  [][(/\ admin_ops' = admin_ops + 1
      /\ last'.op = "override"
      /\ \E i \in ActiveRows : allocations[i].application = last'.application)
     => /\ ~last'.raised
        /\ \A i \in ActiveRows :
              allocations[i].application = last'.application
              => ~allocations'[i].is_active
        /\ \E j \in 1..Len(allocations') :
              /\ allocations'[j].application = last'.application
              /\ allocations'[j].is_active
              /\ allocations'[j].admin_override]_vars

(***************************************************************************)
(* C12: once a run has completed and left applicants on the waiting list,  *)
(* a later run over the applications still pending does not fail with an   *)
(* exception, and no application has two waiting-list entries.             *)
(***************************************************************************)
C12_RerunIsSafe ==
  /\ \A r \in Runs :
        (\E q \in Runs \ {r} : /\ run_record[q].status = "COMPLETED"
                               /\ eng[q].waiting_list # <<>>)
        => ~(/\ run_record[r].status = "FAILED"
             /\ run_record[r].error_message = "IntegrityError")
  /\ \A i, j \in 1..Len(waiting) :
        waiting[i].application = waiting[j].application => i = j

(***************************************************************************)
(* C13: a run places only applications that are pending and have no        *)
(* Allocation row: an application allocated by an earlier run gets no      *)
(* second allocation and no second bed space from a later run.             *)
(***************************************************************************)
C13_RerunSkipsAllocated ==
  [][\A r \in Runs :
       Len(eng'[r].successful) = Len(eng[r].successful) + 1
       => LET a == eng'[r].successful[Len(eng'[r].successful)].application_id
          IN /\ app_status[a] = "pending"
             /\ ~AllocationExists(a)]_vars

C13_Witness ==
  \E r, q \in Runs :
    /\ r # q
    /\ run_record[q].status = "COMPLETED"
    /\ eng[q].successful # <<>>
    /\ eng[r].successful # <<>>

(***************************************************************************)
(* The loop of allocate_batch as a function of the sorted list, the        *)
(* snapshot of the rooms and the occupied bed spaces: the bed space of     *)
(* each applicant in turn, None for an applicant left unplaced.            *)
(***************************************************************************)
RECURSIVE Placements(_, _, _)
Placements(apps, rooms_by_gender, occupied) ==
  IF apps = <<>> THEN <<>>
  ELSE LET rm == FirstRoomWithBed(
                   CandidateRooms(student[Head(apps)], rooms_by_gender),
                   occupied)
           b == IF rm = None THEN None ELSE FirstFreeBed(rm, occupied)
       IN <<b>> \o Placements(Tail(apps), rooms_by_gender,
                              IF b = None THEN occupied ELSE occupied \cup {b})

(***************************************************************************)
(* C14: the assignments and the waiting list of a run are those of the     *)
(* same applicants and the same inventory with the applicants presented    *)
(* in ascending order of id, whatever the order of the input list.         *)
(***************************************************************************)
C14_Deterministic ==
  \A r \in Runs :
    LoopFinished(r) =>
      LET e == eng[r]
          canon == SortedApps(AscList(e.applications), student)
          beds == Placements(canon, e.rooms_by_gender, e.pre_occupied)
      IN /\ {<<e.successful[i].application_id, e.successful[i].bed>> :
                i \in 1..Len(e.successful)}
              = {<<canon[i], beds[i]>> :
                   i \in {j \in 1..Len(canon) : beds[j] # None}}
         /\ e.waiting_list
              = SeqFilter(canon, {canon[i] :
                   i \in {j \in 1..Len(canon) : beds[j] = None}})

(***************************************************************************)
(* The default listing of the waiting list, Meta.ordering =                *)
(* ['is_priority', 'position', 'added_at']: row x comes before row y       *)
(* (False sorts before True; added_at is the order of insertion).          *)
(***************************************************************************)
WaitingListedBefore(i, j) ==
  LET x == waiting[i]
      y == waiting[j]
  IN \/ ~x.is_priority /\ y.is_priority
     \/ /\ x.is_priority = y.is_priority
        /\ \/ x.position < y.position
           \/ x.position = y.position /\ i < j

(***************************************************************************)
(* C15: among the waiting-list entries written by the first run, every     *)
(* priority entry has a smaller position than every other entry and is     *)
(* listed before it by the default ordering.                               *)
(***************************************************************************)
C15_PriorityFirst ==
  (\A r \in Runs : r # 1 => eng[r].pc = "queued" /\ eng[r].retries = 0)
  => \A i, j \in 1..Len(waiting) :
       (waiting[i].is_priority /\ ~waiting[j].is_priority)
       => /\ waiting[i].position < waiting[j].position
          /\ WaitingListedBefore(i, j)

(***************************************************************************)
(* C16: the status of a run changes only from PENDING to RUNNING or        *)
(* CANCELLED and from RUNNING to COMPLETED, FAILED or CANCELLED (a task    *)
(* that finds nothing to do passes from PENDING through RUNNING to FAILED  *)
(* in one step); COMPLETED, FAILED and CANCELLED are never left.           *)
(***************************************************************************)
C16_RunStatusMachine ==
  [][\A r \in Runs :
       LET old == run_record[r].status
           new == run_record'[r].status
       IN \/ new = old
          \/ old = "PENDING" /\ new \in {"RUNNING", "CANCELLED", "FAILED"}
          \/ /\ old = "RUNNING"
             /\ new \in {"COMPLETED", "FAILED", "CANCELLED"}]_vars

(***************************************************************************)
(* C17: a task that picks up a run whose status is CANCELLED leaves the    *)
(* status CANCELLED, scores nothing and starts no allocation loop.         *)
(***************************************************************************)
C17_CancelledRunNotStarted ==
  [][\A r \in Runs :
       (/\ run_record[r].status = "CANCELLED"
        /\ eng[r].pc = "queued"
        /\ eng'[r].pc # "queued")
       => /\ run_record'[r].status = "CANCELLED"
          /\ audit' = audit
          /\ eng'[r].pc = "done"]_vars

(***************************************************************************)
(* C18: the stored record of a COMPLETED run carries the counters of the   *)
(* run: the numbers of input applications, of placements and of            *)
(* waitlisted applicants.                                                  *)
(***************************************************************************)
C18_CountersPersisted ==
  \A r \in Runs :
    (run_record[r].status = "COMPLETED" /\ eng[r].pc = "done")
    => /\ run_record[r].total_applications = Cardinality(eng[r].applications)
       /\ run_record[r].successful_allocations = Len(eng[r].successful)
       /\ run_record[r].waiting_list_count = Len(eng[r].waiting_list)

(***************************************************************************)
(* C19: when an exception leaves the batch after the loop, the run becomes *)
(* FAILED with an error text, every allocation the run made is in the      *)
(* table with its application allocated and its bed space occupied, and    *)
(* no earlier row of the table is changed.                                 *)
(***************************************************************************)
C19_FailedKeepsAllocations ==
  [][\A r \in Runs :
       (/\ eng[r].pc = "loop"
        /\ run_record[r].status # "FAILED"
        /\ run_record'[r].status = "FAILED")
       => /\ run_record'[r].error_message # ""
          /\ \A j \in 1..Len(allocations) :
                /\ j <= Len(allocations')
                /\ allocations'[j] = allocations[j]
          /\ \A i \in 1..Len(eng[r].w_alloc) :
                LET row == eng[r].w_alloc[i]
                IN /\ \E j \in 1..Len(allocations') : allocations'[j] = row
                   /\ app_status'[row.application] = "allocated"
                   /\ bed_occupied'[BedOfRow(row)]]_vars

C19_Witness ==
  \E r, q \in Runs :
    /\ r # q
    /\ run_record[r].status = "FAILED"
    /\ run_record[r].error_message = "IntegrityError"
    /\ eng[r].pc = "queued"
    /\ eng[r].retries = 1
    /\ run_record[q].status = "COMPLETED"
    /\ Len(allocations) > Len(eng[q].successful)

(***************************************************************************)
(* C20: an applicant whose scoring raised stays in the batch with score 0: *)
(* the sorted list holds every input application, nobody with a positive   *)
(* score comes after such an applicant, the other applicants are scored    *)
(* and audited, and at the end of the loop every input application is      *)
(* either placed or on the waiting list of the run.                        *)
(***************************************************************************)
C20_ScoringFailureKeepsApplicant ==
  \A r \in Runs :
    eng[r].pc \in {"loop", "picked"} =>
      LET e == eng[r]
          s == e.sorted_apps
      IN /\ Range(s) = e.applications
         /\ Len(s) = Cardinality(e.applications)
         /\ \A i, j \in 1..Len(s) :
               (i < j /\ student[s[i]].prediction = PredictFails)
               => \/ student[s[j]].prediction = PredictFails
                  \/ AdjustedScore(student[s[j]]) = 0
         /\ \A a \in e.applications :
               student[a].prediction # PredictFails
               => BagIn(AuditRow("PRIORITY_CALCULATED", a), audit)
         /\ LoopFinished(r) =>
               \A a \in e.applications :
                  \/ \E i \in 1..Len(e.successful) :
                        e.successful[i].application_id = a
                  \/ a \in Range(e.waiting_list)

C20_Witness ==
  \E r \in Runs :
    /\ LoopFinished(r)
    /\ \E i \in 1..Len(eng[r].successful) :
          student[eng[r].successful[i].application_id].prediction = PredictFails
    /\ \E a \in Range(eng[r].waiting_list) :
          student[a].prediction = PredictFails
    /\ \E a \in eng[r].applications : student[a].prediction # PredictFails

(***************************************************************************)
(* C21: a run reports an applicant as placed on a bed space only if the    *)
(* bed space was not occupied, as committed, when the run claimed it; a    *)
(* claim on an occupied bed space is not reported as a placement.          *)
(***************************************************************************)
C21_NoPlacementOnFailedClaim ==
  [][\A r \in Runs :
       Len(eng'[r].successful) = Len(eng[r].successful) + 1
       => ~bed_occupied[eng'[r].successful[Len(eng'[r].successful)].bed]]_vars

(***************************************************************************)
(* C22: a scoring pass adds exactly one PRIORITY_CALCULATED event for each *)
(* application of its input, every new Allocation row comes with exactly   *)
(* one ALLOCATION_CREATED or MANUAL_OVERRIDE event for its application,    *)
(* and no step lowers the number of copies of an audit event.              *)
(***************************************************************************)
C22_ExactlyOneAuditEvent ==
  [][/\ \A r \in Runs :
          (eng[r].pc = "queued" /\ eng'[r].pc = "loop")
          => \A a \in eng'[r].applications :
               CopiesIn(AuditRow("PRIORITY_CALCULATED", a), audit')
                 = CopiesIn(AuditRow("PRIORITY_CALCULATED", a), audit) + 1
     /\ \A a \in Apps :
          Cardinality({i \in 1..Len(allocations') :
                         allocations'[i].application = a})
            - Cardinality({i \in 1..Len(allocations) :
                             allocations[i].application = a})
          = (CopiesIn(AuditRow("ALLOCATION_CREATED", a), audit')
               + CopiesIn(AuditRow("MANUAL_OVERRIDE", a), audit'))
            - (CopiesIn(AuditRow("ALLOCATION_CREATED", a), audit)
                 + CopiesIn(AuditRow("MANUAL_OVERRIDE", a), audit))
     /\ \A row \in BagToSet(audit) :
          CopiesIn(row, audit') >= CopiesIn(row, audit)]_vars

(***************************************************************************)
(* The predictor (ml_models/features.py, ml_models/predictor.py).  Feature *)
(* values and scores are in hundredths; NoValue stands for None.           *)
(***************************************************************************)
NoValue == -1000000

MIN_GPA == 0

MAX_GPA == 500

max_distance_cap == 500

PRIORITY_WEIGHTS == [gpa |-> 40, distance |-> 30, level |-> 20, need_based |-> 10]

normalize_gpa(gpa) ==
  IF gpa = NoValue \/ gpa < MIN_GPA THEN 0
  ELSE Max2(0, Min2(100, ((gpa - MIN_GPA) * 100) \div (MAX_GPA - MIN_GPA)))

encode_level(level) ==
  IF level \in {100, 200, 300, 400, 500} THEN level \div 100 ELSE 1

\* distance in km
transform_distance(distance) ==
  IF distance = NoValue \/ distance < 0 THEN 0
  ELSE (Min2(distance, max_distance_cap) * 100) \div max_distance_cap

encode_binary(value) == IF value THEN 1 ELSE 0

extract_features(gpa, level, distance, disability, financial_aid) ==
  [gpa_normalized |-> normalize_gpa(gpa),
   level_encoded |-> encode_level(level),
   distance_transformed |-> transform_distance(distance),
   disability_flag |-> encode_binary(disability),
   financial_aid_flag |-> encode_binary(financial_aid)]

\* the score in hundredths
generate_synthetic_priority_score(features) ==
  LET gpa_score == features.gpa_normalized * PRIORITY_WEIGHTS.gpa
      distance_score == features.distance_transformed * PRIORITY_WEIGHTS.distance
      level_score == (features.level_encoded * PRIORITY_WEIGHTS.level * 100) \div 5
      need_score ==
        IF features.disability_flag + features.financial_aid_flag > 0
        THEN PRIORITY_WEIGHTS.need_based * 100 ELSE 0
      total_score == gpa_score + distance_score + level_score + need_score
  IN Max2(min_score * 100, Min2(max_score * 100, total_score))

\* _ml_predict: the clamp of the raw score of the model
ml_priority_score(raw_score) == Max2(min_score, Min2(max_score, raw_score))

GpaInputs == {NoValue, -100, 0, 250, 500, 900}

DistanceInputs == {NoValue, -5, 0, 250, 500, 100000}

LevelInputs == {0, 100, 300, 400, 500, 900}

RawFeatureInputs == {-300, 0, 50, 100, 700}

RawScoreInputs == {-250, 0, 37, 100, 1000}

\* every score of the predictor over the inputs above, in whole points
PredictorScores ==
  {generate_synthetic_priority_score(
       extract_features(g, lv, d, dis, fin)) \div 100 :
     g \in GpaInputs, lv \in LevelInputs, d \in DistanceInputs,
     dis \in BOOLEAN, fin \in BOOLEAN}
  \cup {ml_priority_score(raw) : raw \in RawScoreInputs}

\* the fallback score over raw feature values inside and outside [0, 1]
FallbackScoresWithinRange ==
  \A g \in RawFeatureInputs, d \in RawFeatureInputs,
     lv \in {-2, 0, 1, 5, 40}, dis \in 0..1, fin \in 0..1 :
     generate_synthetic_priority_score(
       [gpa_normalized |-> g, level_encoded |-> lv,
        distance_transformed |-> d, disability_flag |-> dis,
        financial_aid_flag |-> fin]) \in (min_score * 100)..(max_score * 100)

\* the score of the engine over every score of the predictor
EngineScoresWithinRange ==
  \A p \in PredictorScores, lv \in LevelInputs, dis \in BOOLEAN :
     AdjustedScore([prediction |-> p, level |-> lv,
                    disability_status |-> dis]) \in min_score..max_score

(***************************************************************************)
(* C23: the fallback score is within [0, 100] for features extracted from  *)
(* extreme inputs and for raw feature values outside their range, the      *)
(* clamped model score is within [0, 100], and the score of the engine     *)
(* after the seniority boost and the disability floor is within [0, 100],  *)
(* for every score of the predictor and for every application of a run.    *)
(***************************************************************************)
C23_ScoreWithinRange ==
  /\ FallbackScoresWithinRange
  /\ PredictorScores \subseteq min_score..max_score
  /\ EngineScoresWithinRange
  /\ \A r \in Runs : \A a \in eng[r].applications :
        PriorityScore(student[a]) \in min_score..max_score

C23_Witness ==
  \E r \in Runs : \E a \in eng[r].applications :
    /\ eng[r].pc = "loop"
    /\ student[a].prediction # PredictFails
    /\ student[a].level \in {400, 500}
    /\ (student[a].prediction * seniority_boost_tenths) \div 10 > max_score
    /\ PriorityScore(student[a]) = max_score

\* the two methods on every counter value a room can hold
CounterMethodsWithinCapacity ==
  \A rm \in Rooms : \A occ \in 0..room[rm].capacity :
     /\ is_full(rm, occ) => /\ increment_occupancy(rm, occ) = occ
                            /\ ~increment_occupancy_returns(rm, occ)
     /\ occ = 0 => /\ decrement_occupancy(rm, occ) = occ
                   /\ ~decrement_occupancy_returns(rm, occ)
     /\ increment_occupancy(rm, occ) \in 0..room[rm].capacity
     /\ decrement_occupancy(rm, occ) \in 0..room[rm].capacity

(***************************************************************************)
(* C24: the occupancy counter of every room is between 0 and the capacity  *)
(* of the room, in the table and in every value a run holds or has         *)
(* written; an increment of a full room and a decrement of an empty room   *)
(* leave the counter as it was and return False.                           *)
(***************************************************************************)
C24_OccupancyWithinCapacity ==
  /\ \A rm \in Rooms :
        /\ room_occ[rm] \in 0..room[rm].capacity
        /\ \A r \in Runs :
              /\ eng[r].mem_occ[rm] \in 0..room[rm].capacity
              /\ eng[r].w_room[rm] # NotWritten
                    => eng[r].w_room[rm] \in 0..room[rm].capacity
  /\ CounterMethodsWithinCapacity

\* a run has placed an applicant in a room of capacity 1: the second
\* increment of the placement met a full room
C24_Witness ==
  \E r \in Runs : \E i \in 1..Len(eng[r].successful) :
    LET rm == eng[r].successful[i].room_id
    IN /\ room[rm].capacity = 1
       /\ eng[r].w_room[rm] = room[rm].capacity
       /\ eng[r].needs_rollback = FALSE

(***************************************************************************)
(* C25: when a run puts an application on its waiting list because no bed  *)
(* space was found, no active room outside maintenance in a hostel of a    *)
(* gender type the applicant is eligible for has a free active bed space,  *)
(* as the transaction of the run reads the bed spaces.                     *)
(***************************************************************************)
C25_WaitlistOnlyWhenFull ==
  [][\A r \in Runs :
       LET e == eng[r]
           app == e.sorted_apps[e.idx]
       IN (/\ e.pc = "loop"
           /\ e.idx <= Len(e.sorted_apps)
           /\ ~e.needs_rollback
           /\ eng'[r].waiting_list = Append(e.waiting_list, app))
          => ~\E rm \in Rooms :
                /\ room[rm].is_active
                /\ ~room[rm].is_under_maintenance
                /\ gender_type[room[rm].hostel]
                      \in Range(EligibleGenders(student[app].gender))
                /\ FreeBeds(rm, BedsSeenBy(r)) # {}]_vars

(***************************************************************************)
(* The scan of _allocate_single as a set and an order: the rooms left by   *)
(* the two narrowings, and the order of the list (the buckets in the order *)
(* of eligible_genders, in a bucket accessible rooms first, then by room   *)
(* number)                                                                 *)
(***************************************************************************)
NarrowedRooms(st, rooms_by_gender) ==
  LET eligible == UNION {Range(rooms_by_gender[g]) :
                           g \in Range(EligibleGenders(st.gender))}
      accessible == {rm \in eligible : room[rm].is_accessible}
      first == IF st.disability_status /\ accessible # {}
               THEN accessible ELSE eligible
      preferred == {rm \in first : room[rm].hostel = st.preferred_hostel}
  IN IF st.preferred_hostel # None /\ preferred # {} THEN preferred ELSE first

BucketRank(rm, st) ==
  CHOOSE i \in 1..Len(EligibleGenders(st.gender)) :
    EligibleGenders(st.gender)[i] = gender_type[room[rm].hostel]

ScannedBefore(x, y, st) ==
  \/ BucketRank(x, st) < BucketRank(y, st)
  \/ /\ BucketRank(x, st) = BucketRank(y, st)
     /\ \/ room[x].is_accessible /\ ~room[y].is_accessible
        \/ /\ room[x].is_accessible = room[y].is_accessible
           /\ StrLess(room[x].room_number, room[y].room_number)

(***************************************************************************)
(* C26: the room a run selects for an applicant is one of the narrowed     *)
(* rooms with a free active bed space, no narrowed room with a free active *)
(* bed space comes before it in the order own-gender bucket, then mixed    *)
(* bucket, accessible rooms first, ascending room number, and the bed      *)
(* space selected is the free active bed space of that room with the       *)
(* lowest space number.                                                    *)
(***************************************************************************)
C26_FirstRoomLowestBed ==
  [][\A r \in Runs :
       (eng[r].pc = "loop" /\ eng'[r].pc = "picked") =>
         LET e == eng[r]
             st == student[e.sorted_apps[e.idx]]
             rm == eng'[r].selected_room
             b == eng'[r].selected_bed_space
             narrowed == NarrowedRooms(st, e.rooms_by_gender)
         IN /\ rm \in narrowed
            /\ b \in FreeBeds(rm, BedsSeenBy(r))
            /\ \A y \in narrowed :
                  FreeBeds(y, BedsSeenBy(r)) # {} => ~ScannedBefore(y, rm, st)
            /\ \A c \in FreeBeds(rm, BedsSeenBy(r)) :
                  bed_space[b].space_number <= bed_space[c].space_number]_vars

\* a room is selected while a narrowed room with a lower id, a higher room
\* number and a free bed space is passed over
C26_Witness ==
  \E r \in Runs :
    /\ eng[r].pc = "picked"
    /\ \E y \in NarrowedRooms(student[eng[r].sorted_apps[eng[r].idx]],
                              eng[r].rooms_by_gender) :
          /\ y < eng[r].selected_room
          /\ gender_type[room[y].hostel]
                = gender_type[room[eng[r].selected_room].hostel]
          /\ room[y].is_accessible = room[eng[r].selected_room].is_accessible
          /\ FreeBeds(y, BedsSeenBy(r)) # {}

(***************************************************************************)
(* C27: when a run leaves its atomic block, for every application on its   *)
(* waiting list the step marks the application allocated no more than it   *)
(* was, adds no Allocation row for it, and leaves the bed space and the    *)
(* occupancy of the room of a claim made for it as they were.              *)
(***************************************************************************)
C27_WaitlistedLeavesNoTrace ==
  [][\A r \in Runs :
       (/\ eng[r].pc = "loop"
        /\ eng[r].idx > Len(eng[r].sorted_apps)
        /\ eng'[r].pc \in {"done", "queued"})
       => \A a \in Range(eng[r].waiting_list) :
            /\ app_status'[a] = app_status[a]
            /\ {i \in 1..Len(allocations') : allocations'[i].application = a}
                 = {i \in 1..Len(allocations) : allocations[i].application = a}
            /\ \A i \in 1..Len(eng[r].successful) :
                  eng[r].successful[i].application_id = a
                  => /\ bed_occupied'[eng[r].successful[i].bed]
                          = bed_occupied[eng[r].successful[i].bed]
                     /\ room_occ'[eng[r].successful[i].room_id]
                          = room_occ[eng[r].successful[i].room_id]]_vars

\* a run has ended with an application on its waiting list for which it
\* had claimed a bed space
C27_Witness ==
  \E r \in Runs : \E i \in 1..Len(eng[r].successful) :
    /\ eng[r].pc = "done"
    /\ run_record[r].status = "COMPLETED"
    /\ eng[r].successful[i].application_id \in Range(eng[r].waiting_list)
    /\ ~bed_occupied[eng[r].successful[i].bed]

(***************************************************************************)
(* C28: a cancellation of an allocation that is already inactive changes   *)
(* no bed space and no occupancy counter.                                  *)
(***************************************************************************)
C28_CancelIdempotent ==
  [][(admin_ops' = admin_ops + 1 /\ last'.op = "cancel")
     => \A i \in 1..Len(allocations) :
          (/\ allocations[i].application = last'.application
           /\ ~allocations[i].is_active)
          => /\ bed_occupied' = bed_occupied
             /\ room_occ' = room_occ]_vars

(***************************************************************************)
(* C29: an application has status allocated only if an active Allocation   *)
(* row designates it.                                                      *)
(***************************************************************************)
C29_AllocatedHasActiveAllocation ==
  \A a \in Apps :
    app_status[a] = "allocated"
    => \E i \in ActiveRows : allocations[i].application = a

(***************************************************************************)
(* C30: from some point on every run is COMPLETED or FAILED for good, so   *)
(* no run stays RUNNING; a task is retried at most MaxRetries times; a run *)
(* that failed with 'No pending applications found' is FAILED, its task is *)
(* over and is never executed again.                                       *)
(***************************************************************************)
C30_RunTerminates ==
  /\ <>[](\A r \in Runs : run_record[r].status \in {"COMPLETED", "FAILED"})
  /\ [](\A r \in Runs :
          /\ eng[r].retries <= MaxRetries
          /\ run_record[r].error_message = "No pending applications found"
               => /\ run_record[r].status = "FAILED"
                  /\ eng[r].pc = "done")
  /\ [][\A r \in Runs :
          run_record[r].error_message = "No pending applications found"
          => /\ run_record'[r] = run_record[r]
             /\ eng'[r] = eng[r]]_vars

\* one run has completed and the task of another has found no pending
\* application at its first execution
C30_Witness ==
  \E r, q \in Runs :
    /\ run_record[r].status = "COMPLETED"
    /\ run_record[q].status = "FAILED"
    /\ run_record[q].error_message = "No pending applications found"
    /\ eng[q].pc = "done"
    /\ eng[q].retries = 0

====
